---- MODULE Spec2Model ----
(***************************************************************************)
(* Model of the Essence CRUD service (routers.py, schemas.py, models.py,   *)
(* database.py).  The table `essence` is the sequence `rows`, kept in      *)
(* rowid order.  Every request runs in a session of its own (get_db) and   *)
(* its handler is cut at its awaits on the session: each action is the     *)
(* piece of a handler that ends with one await (db.get, db.execute,        *)
(* db.commit, db.refresh) taking effect, so the requests in progress       *)
(* interleave at those points, as they do on the event loop.               *)
(*                                                                         *)
(*   Spec   NumSessions requests in progress at once, every route          *)
(***************************************************************************)
EXTENDS Integers, Sequences, FiniteSets

\* rows     the table essence, in rowid order
\* sess     the requests in progress: for each session the route, the
\*          request, the objects the session holds, and the response
VARIABLES rows, sess

vars == <<rows, sess>>

\* ---------------------------------------------------------------- bounds
MaxId == 2
MaxBulk == 2
NumSessions == 2

\* ------------------------------------------------------ program constants
MaxNameLen == 255
LimitMin == 1
LimitMax == 100
LimitDefault == 10
OffsetDefault == 0

HTTP_200_OK == 200
HTTP_201_CREATED == 201
HTTP_204_NO_CONTENT == 204
HTTP_404_NOT_FOUND == 404
HTTP_422_UNPROCESSABLE == 422
HTTP_500_SERVER_ERROR == 500

\* ------------------------------------------------------------ small helpers
SetMax(S) == CHOOSE x \in S : \A y \in S : y <= x

RECURSIVE SelectRows(_, _)
SelectRows(s, keep) ==
    IF s = <<>> THEN <<>>
    ELSE IF keep[1] THEN <<Head(s)>> \o SelectRows(Tail(s), Tail(keep))
    ELSE SelectRows(Tail(s), Tail(keep))

\* ------------------------------------------------------- request encoding
\* A field of a request: absent, JSON null, or a value.  v is a value of the
\* field's type also when the field is absent or null.
Val(x) == [k |-> "val", v |-> x]
AbsentStr == [k |-> "absent", v |-> <<>>]
AbsentInt == [k |-> "absent", v |-> 0]
AbsentBool == [k |-> "absent", v |-> FALSE]
NullStr == [k |-> "null", v |-> <<>>]
NullInt == [k |-> "null", v |-> 0]
NullBool == [k |-> "null", v |-> FALSE]

Payload(n, q, d, x) == [name |-> n, quantity |-> q, is_done |-> d, extra |-> x]

\* ------------------------------------------------------------ schemas.py
\* EssenceBase: name str max_length=255, quantity int ge=0, is_done bool
\* with default False, extra='forbid'.
EssenceBase(p) ==
    /\ ~p.extra
    /\ p.name.k = "val" /\ Len(p.name.v) <= MaxNameLen
    /\ p.quantity.k = "val" /\ p.quantity.v >= 0
    /\ p.is_done.k \in {"absent", "val"}

EssenceCreate(p) == EssenceBase(p)

EssenceReplace(p) == EssenceBase(p)

\* EssenceUpdate without ge=0 on quantity (a faulty variant).
EssenceUpdate_NoGe(p) ==
    /\ ~p.extra
    /\ (p.name.k = "val" => Len(p.name.v) <= MaxNameLen)

\* EssenceUpdate: every field Optional with default None, extra='forbid'.
EssenceUpdate(p) ==
    /\ ~p.extra
    /\ (p.name.k = "val" => Len(p.name.v) <= MaxNameLen)
    /\ (p.quantity.k = "val" => p.quantity.v >= 0)

\* model_dump() of a validated EssenceBase: the default fills is_done.
model_dump(p) ==
    [name |-> p.name.v,
     quantity |-> p.quantity.v,
     is_done |-> IF p.is_done.k = "absent" THEN FALSE ELSE p.is_done.v]

\* model_dump(exclude_unset=True) of a validated EssenceUpdate: the keys that
\* were sent, null included.
model_dump_exclude_unset(p) ==
    {f \in {"name", "quantity", "is_done"} : p[f].k # "absent"}

\* Annotated[EssenceCreate, Depends()]: the model's fields are read from the
\* query string by name; a query parameter of any other name is not looked at.
DependsEssenceCreate(p) == EssenceBase([p EXCEPT !.extra = FALSE])

\* -------------------------------------------------- models.py, database.py
IdsOf(db) == {db[i].id : i \in 1..Len(db)}

\* INTEGER PRIMARY KEY on SQLite without AUTOINCREMENT: the new rowid is one
\* more than the largest rowid in the table.
NextId(db) == IF db = <<>> THEN 1 ELSE SetMax(IdsOf(db)) + 1

Essence(id, d) ==
    [id |-> id, name |-> d.name, quantity |-> d.quantity, is_done |-> d.is_done]

\* db.get(Essence, essence_id) in a session that holds no object yet: the
\* row as a sequence of length 0 or 1.
db_get(db, id) == SelectRows(db, [i \in 1..Len(db) |-> db[i].id = id])

\* db.refresh(essence): the row with the object's primary key, read again.
db_refresh(db, essence) == db_get(db, essence.id)

\* The INSERTs of db.add / db.add_all at commit, in the order of the list.
AddAll(db, items) ==
    db \o [i \in 1..Len(items) |-> Essence(NextId(db) + i - 1, model_dump(items[i]))]

\* The flush of a loaded object at commit: the session compares each
\* attribute with the value it loaded and emits UPDATE ... SET <the columns
\* that differ> WHERE id = <loaded id>; db is the table at that moment.
Flush(db, loaded, cur) ==
    [i \in 1..Len(db) |->
        IF db[i].id # loaded.id THEN db[i]
        ELSE [id |-> db[i].id,
              name |-> IF cur.name # loaded.name THEN cur.name ELSE db[i].name,
              quantity |-> IF cur.quantity # loaded.quantity
                           THEN cur.quantity ELSE db[i].quantity,
              is_done |-> IF cur.is_done # loaded.is_done
                          THEN cur.is_done ELSE db[i].is_done]]

\* The DELETE of a deleted object at commit: WHERE id = <loaded id>.
db_delete(db, essence) == SelectRows(db, [i \in 1..Len(db) |-> db[i].id # essence.id])

\* ------------------------------------------------------------- sessions
Sessions == 1..NumSessions

\* The session of a request (get_db) and the handler's locals:
\*   pc          where the handler is: "idle" (no request), "loaded" (after
\*               db.get), "committed" (after db.commit), "done" (answered)
\*   op          the route
\*   essence_id  the path parameter (0 when the route has none)
\*   essence_in  the body or the query parameters
\*   essences    the objects of the session, with the attribute values the
\*               session loaded or inserted
\*   k           how many of them create_essences_bulk has refreshed
\*   raced       another put_essence of the same id committed since db.get
\*   status, body, error   the response, and the exception that ended the
\*               handler ("" when none did)
IdleSession ==
    [pc |-> "idle", op |-> "none", essence_id |-> 0, essence_in |-> <<>>,
     essences |-> <<>>, k |-> 0, raced |-> FALSE,
     status |-> 0, body |-> <<>>, error |-> ""]

Request(op, id, in) ==
    [IdleSession EXCEPT !.op = op, !.essence_id = id, !.essence_in = in]

\* The handler returns or raises: the response is fixed and the session is
\* closed (a transaction that was not committed is rolled back).
Answer(r, st, b, e) ==
    [r EXCEPT !.pc = "done", !.status = st, !.body = b, !.error = e,
              !.essences = <<>>, !.k = 0, !.raced = FALSE]

Return(r, st, b) == Answer(r, st, b, "")

\* HTTPException(404), a RequestValidationError (422), and the exceptions
\* that nothing catches (500).
NotFound(r) == Answer(r, HTTP_404_NOT_FOUND, <<>>, "ERROR_ESSENCE_NOT_FOUND")
Invalid(r) == Answer(r, HTTP_422_UNPROCESSABLE, <<>>, "RequestValidationError")
CommitFailed(r) == Answer(r, HTTP_500_SERVER_ERROR, <<>>, "OperationalError")
NotNullFailed(r) == Answer(r, HTTP_500_SERVER_ERROR, <<>>, "IntegrityError")
StaleData(r) == Answer(r, HTTP_500_SERVER_ERROR, <<>>, "StaleDataError")
RefreshFailed(r) == Answer(r, HTTP_500_SERVER_ERROR, <<>>, "InvalidRequestError")

\* ------------------------------------------------------------- routers.py
\* ilike: both sides are lower-cased (ASCII letters), then LIKE, where % in the
\* pattern stands for any run of characters and _ for any one character.
Lower(c) ==
    CASE c = "A" -> "a"
      [] c = "P" -> "p"
      [] OTHER -> c

RECURSIVE Like(_, _)
Like(pat, s) ==
    IF pat = <<>> THEN s = <<>>
    ELSE IF Head(pat) = "%"
         THEN Like(Tail(pat), s) \/ (s # <<>> /\ Like(pat, Tail(s)))
    ELSE IF s = <<>> THEN FALSE
    ELSE IF Head(pat) = "_" THEN Like(Tail(pat), Tail(s))
    ELSE Lower(Head(pat)) = Lower(Head(s)) /\ Like(Tail(pat), Tail(s))

ilike(s, pat) == Like(pat, s)

\* The declared bounds of the query parameters (ge, le).
ListQuery(q) ==
    /\ (q.min_quantity.k = "val" => q.min_quantity.v >= 0)
    /\ (q.max_quantity.k = "val" => q.max_quantity.v >= 0)
    /\ (q.limit.k = "val" => q.limit.v >= LimitMin /\ q.limit.v <= LimitMax)
    /\ (q.offset.k = "val" => q.offset.v >= 0)

\* The default of a query parameter that was not sent.
Default(f, d) == IF f.k = "val" THEN f.v ELSE d

Where(q, e) ==
    /\ (q.name.k = "val" /\ q.name.v # <<>>
            => ilike(e.name, <<"%">> \o q.name.v \o <<"%">>))
    /\ (q.is_done.k = "val" => e.is_done = q.is_done.v)
    /\ (q.min_quantity.k = "val" => e.quantity >= q.min_quantity.v)
    /\ (q.max_quantity.k = "val" => e.quantity <= q.max_quantity.v)

\* LIMIT limit OFFSET offset over the rows in rowid order.
LimitOffset(s, limit, offset) ==
    SubSeq(s, offset + 1, IF Len(s) < offset + limit THEN Len(s) ELSE offset + limit)

\* list_essences has one await, db.execute: the response of request r.
list_essences(db, r) ==
    LET q == r.essence_in IN
    IF ~ListQuery(q) THEN Invalid(r)
    ELSE Return(r, HTTP_200_OK,
                LimitOffset(SelectRows(db, [i \in 1..Len(db) |-> Where(q, db[i])]),
                            Default(q.limit, LimitDefault),
                            Default(q.offset, OffsetDefault)))

\* get_essence has one await, db.get: the response of request r.
get_essence(db, r) ==
    LET essence == db_get(db, r.essence_id) IN
    IF essence = <<>> THEN NotFound(r)
    ELSE Return(r, HTTP_200_OK, essence)

\* setattr(essence, key, value) for every key of model_dump().
PutAttrs(essence, p) == Essence(essence.id, model_dump(p))

\* setattr(essence, key, value) for the keys that were sent.
PatchAttrs(essence, p) ==
    LET sent == model_dump_exclude_unset(p) IN
    [id |-> essence.id,
     name |-> IF "name" \in sent THEN p.name.v ELSE essence.name,
     quantity |-> IF "quantity" \in sent THEN p.quantity.v ELSE essence.quantity,
     is_done |-> IF "is_done" \in sent THEN p.is_done.v ELSE essence.is_done]

\* A key was sent as null: the attribute is set to None.
SetsNone(p) ==
    \E f \in model_dump_exclude_unset(p) : p[f].k = "null"

\* ------------------------------------------------------------- the requests
NameAp == <<"A", "p">>
LongName == [i \in 1..(MaxNameLen + 1) |-> "p"]

\* What a query string can carry: fields sent or not, and other parameters.
CreateQueries ==
    {Payload(Val(NameAp), Val(1), AbsentBool, FALSE),
     Payload(Val(NameAp), Val(0), Val(TRUE), FALSE),
     Payload(Val(NameAp), Val(0), Val(FALSE), TRUE),
     Payload(Val(NameAp), Val(-1), AbsentBool, FALSE),
     Payload(Val(LongName), Val(1), AbsentBool, FALSE)}

\* What a JSON object can carry: a field sent, sent as null, or not sent.
BodyPayloads ==
    {Payload(Val(NameAp), Val(1), Val(TRUE), FALSE),
     Payload(Val(NameAp), Val(0), AbsentBool, FALSE),
     Payload(Val(NameAp), Val(1), Val(FALSE), TRUE),
     Payload(Val(NameAp), Val(-1), Val(TRUE), FALSE)}

PatchPayloads ==
    {Payload(AbsentStr, AbsentInt, AbsentBool, FALSE),
     Payload(AbsentStr, Val(1), AbsentBool, FALSE),
     Payload(Val(NameAp), AbsentInt, Val(TRUE), FALSE),
     Payload(AbsentStr, NullInt, AbsentBool, FALSE),
     Payload(AbsentStr, Val(-1), Val(TRUE), FALSE),
     Payload(Val(NameAp), AbsentInt, AbsentBool, TRUE)}

ItemDefault == Payload(Val(NameAp), Val(0), AbsentBool, FALSE)
ItemDone == Payload(Val(NameAp), Val(1), Val(TRUE), FALSE)
ItemNegative == Payload(Val(NameAp), Val(-1), AbsentBool, FALSE)
ItemExtra == Payload(Val(NameAp), Val(0), Val(FALSE), TRUE)

\* Lists of at most MaxBulk items.
BulkBodies ==
    {items \in UNION {[1..n -> {ItemDefault, ItemDone, ItemNegative, ItemExtra}] :
                        n \in 0..MaxBulk} :
        /\ \A i \in 2..Len(items) : items[i] # items[1]
        /\ \A i \in 1..Len(items) : items[i] = ItemExtra => i = 1
        /\ \A i \in 1..Len(items) : items[i] = ItemNegative => i = Len(items)}

ListQueryOf(n, d, lo, hi, l, o) ==
    [name |-> n, is_done |-> d, min_quantity |-> lo, max_quantity |-> hi,
     limit |-> l, offset |-> o]

BaseQuery ==
    ListQueryOf(AbsentStr, AbsentBool, AbsentInt, AbsentInt, AbsentInt, AbsentInt)

ListQueries ==
    {BaseQuery,
     [BaseQuery EXCEPT !.name = Val(<<"_">>)],
     [BaseQuery EXCEPT !.name = Val(<<"P">>), !.is_done = Val(FALSE),
                       !.min_quantity = Val(1)],
     [BaseQuery EXCEPT !.max_quantity = Val(0), !.limit = Val(1), !.offset = Val(1)],
     [BaseQuery EXCEPT !.min_quantity = Val(-1)],
     [BaseQuery EXCEPT !.limit = Val(LimitMax + 1)]}

\* Path ids.
PathIds == 1..MaxId

\* ------------------------------------------------------------- the service
Init ==
    /\ rows = <<>>
    /\ sess = [s \in Sessions |-> IdleSession]

\* list_essences, lines 52-97.
ListEssences(s) ==
    \E q \in ListQueries :
        /\ sess[s].pc = "idle"
        /\ sess' = [sess EXCEPT ![s] = list_essences(rows, Request("list", 0, q))]
        /\ UNCHANGED rows

\* get_essence, lines 105-112.
GetEssence(s) ==
    \E id \in PathIds :
        /\ sess[s].pc = "idle"
        /\ sess' = [sess EXCEPT ![s] = get_essence(rows, Request("get", id, <<>>))]
        /\ UNCHANGED rows

\* create_essences_bulk, lines 122-128: the body is validated, the objects are
\* added and await db.commit() inserts them all.  With an empty list the loop
\* of refreshes has nothing to do and the handler returns at once.
BulkCommit(s) ==
    \E items \in BulkBodies, ok \in BOOLEAN :
        LET r == Request("bulk", 0, items)
            new == AddAll(rows, items) IN
        /\ sess[s].pc = "idle"
        /\ IF \E i \in 1..Len(items) : ~EssenceCreate(items[i])
           THEN rows' = rows /\ sess' = [sess EXCEPT ![s] = Invalid(r)]
           ELSE IF ~ok
           THEN rows' = rows /\ sess' = [sess EXCEPT ![s] = CommitFailed(r)]
           ELSE /\ \A i \in IdsOf(new) : i <= MaxId
                /\ rows' = new
                /\ sess' = [sess EXCEPT ![s] =
                     IF items = <<>> THEN Return(r, HTTP_201_CREATED, <<>>)
                     ELSE [r EXCEPT !.pc = "committed",
                                    !.essences = SubSeq(new, Len(rows) + 1, Len(new))]]

\* create_essences_bulk, lines 129-131: one await db.refresh(essence) of the
\* loop; after the last one the handler returns the objects.
BulkRefresh(s) ==
    /\ sess[s].pc = "committed"
    /\ sess[s].op = "bulk"
    /\ LET r == sess[s]
           essence == db_refresh(rows, r.essences[r.k + 1])
           essences == [r.essences EXCEPT ![r.k + 1] = essence[1]] IN
       sess' = [sess EXCEPT ![s] =
            IF essence = <<>> THEN RefreshFailed(r)
            ELSE IF r.k + 1 = Len(r.essences)
            THEN Return(r, HTTP_201_CREATED, essences)
            ELSE [r EXCEPT !.essences = essences, !.k = r.k + 1]]
    /\ UNCHANGED rows

\* create_essence, lines 140-146: the query is validated, the object is added
\* and await db.commit() inserts it.
CreateCommit(s) ==
    \E q \in CreateQueries, ok \in BOOLEAN :
        LET r == Request("create", 0, q)
            essence == Essence(NextId(rows), model_dump(q)) IN
        /\ sess[s].pc = "idle"
        /\ IF ~DependsEssenceCreate(q)
           THEN rows' = rows /\ sess' = [sess EXCEPT ![s] = Invalid(r)]
           ELSE IF ~ok
           THEN rows' = rows /\ sess' = [sess EXCEPT ![s] = CommitFailed(r)]
           ELSE /\ essence.id <= MaxId
                /\ rows' = Append(rows, essence)
                /\ sess' = [sess EXCEPT ![s] =
                     [r EXCEPT !.pc = "committed", !.essences = <<essence>>]]

\* create_essence, lines 147-148: await db.refresh(essence); return essence.
CreateRefresh(s) ==
    /\ sess[s].pc = "committed"
    /\ sess[s].op = "create"
    /\ LET r == sess[s]
           essence == db_refresh(rows, r.essences[1]) IN
       sess' = [sess EXCEPT ![s] =
            IF essence = <<>> THEN RefreshFailed(r)
            ELSE Return(r, HTTP_201_CREATED, essence)]
    /\ UNCHANGED rows

\* The first await of put_essence, patch_essence and delete_essence: the
\* request is validated, then essence = await db.get(Essence, essence_id).
Get(s, r, valid) ==
    /\ sess[s].pc = "idle"
    /\ LET essence == db_get(rows, r.essence_id) IN
       sess' = [sess EXCEPT ![s] =
            IF ~valid THEN Invalid(r)
            ELSE IF essence = <<>> THEN NotFound(r)
            ELSE [r EXCEPT !.pc = "loaded", !.essences = essence]]
    /\ UNCHANGED rows

\* await db.commit() of put_essence and patch_essence: cur is the object after
\* the setattr loop, none a key set to None.  The flush sends an UPDATE when
\* an attribute differs from the loaded one; the UPDATE of a row that is gone
\* matches nothing (StaleDataError) and the one that sets NULL is refused by
\* the NOT NULL columns of models.py (IntegrityError).
Commit(s, cur, none, ok) ==
    LET r == sess[s]
        loaded == r.essences[1]
        dirty == none \/ cur # loaded IN
    /\ IF ~ok THEN rows' = rows /\ sess' = [sess EXCEPT ![s] = CommitFailed(r)]
       ELSE IF dirty /\ loaded.id \notin IdsOf(rows)
       THEN rows' = rows /\ sess' = [sess EXCEPT ![s] = StaleData(r)]
       ELSE IF none
       THEN rows' = rows /\ sess' = [sess EXCEPT ![s] = NotNullFailed(r)]
       ELSE /\ rows' = Flush(rows, loaded, cur)
            /\ sess' = [t \in Sessions |->
                 IF t = s THEN [r EXCEPT !.pc = "committed", !.essences = <<cur>>,
                                         !.raced = FALSE]
                 ELSE IF /\ r.op = "put" /\ sess[t].op = "put"
                         /\ sess[t].pc = "loaded"
                         /\ sess[t].essence_id = r.essence_id
                 THEN [sess[t] EXCEPT !.raced = TRUE]
                 ELSE sess[t]]

\* await db.refresh(essence); return essence.
Refresh(s) ==
    /\ sess[s].pc = "committed"
    /\ LET r == sess[s]
           essence == db_refresh(rows, r.essences[1]) IN
       sess' = [sess EXCEPT ![s] =
            IF essence = <<>> THEN RefreshFailed(r)
            ELSE Return(r, HTTP_200_OK, essence)]
    /\ UNCHANGED rows

\* put_essence, lines 156-166.
PutGet(s) ==
    \E id \in PathIds, p \in BodyPayloads :
        Get(s, Request("put", id, p), EssenceReplace(p))

\* put_essence, lines 167-169.
PutCommit(s) ==
    \E ok \in BOOLEAN :
        /\ sess[s].pc = "loaded"
        /\ sess[s].op = "put"
        /\ Commit(s, PutAttrs(sess[s].essences[1], sess[s].essence_in), FALSE, ok)

\* put_essence, lines 170-171.
PutRefresh(s) == sess[s].op = "put" /\ Refresh(s)

\* patch_essence, lines 180-190.
PatchGet(s) ==
    \E id \in PathIds, p \in PatchPayloads :
        Get(s, Request("patch", id, p), EssenceUpdate(p))

\* patch_essence, lines 191-193.
PatchCommit(s) ==
    \E ok \in BOOLEAN :
        /\ sess[s].pc = "loaded"
        /\ sess[s].op = "patch"
        /\ Commit(s, PatchAttrs(sess[s].essences[1], sess[s].essence_in),
                  SetsNone(sess[s].essence_in), ok)

\* patch_essence, lines 194-195.
PatchRefresh(s) == sess[s].op = "patch" /\ Refresh(s)

\* delete_essence, lines 203-212.
DeleteGet(s) ==
    \E id \in PathIds : Get(s, Request("delete", id, <<>>), TRUE)

\* delete_essence, lines 213-215: await db.delete(essence) marks the object
\* and sends nothing; await db.commit() sends the DELETE, and one that
\* matches no row is only warned about; then the handler returns.
DeleteCommit(s) ==
    \E ok \in BOOLEAN :
        LET r == sess[s] IN
        /\ r.pc = "loaded"
        /\ r.op = "delete"
        /\ IF ~ok
           THEN rows' = rows /\ sess' = [sess EXCEPT ![s] = CommitFailed(r)]
           ELSE /\ rows' = db_delete(rows, r.essences[1])
                /\ sess' = [sess EXCEPT ![s] = Return(r, HTTP_204_NO_CONTENT, <<>>)]

\* The response is sent and the session is given up (get_db).
Respond(s) ==
    /\ sess[s].pc = "done"
    /\ sess' = [sess EXCEPT ![s] = IdleSession]
    /\ UNCHANGED rows

Next ==
    \E s \in Sessions :
        \/ ListEssences(s)
        \/ GetEssence(s)
        \/ BulkCommit(s)
        \/ BulkRefresh(s)
        \/ CreateCommit(s)
        \/ CreateRefresh(s)
        \/ PutGet(s)
        \/ PutCommit(s)
        \/ PutRefresh(s)
        \/ PatchGet(s)
        \/ PatchCommit(s)
        \/ PatchRefresh(s)
        \/ DeleteGet(s)
        \/ DeleteCommit(s)
        \/ Respond(s)

\* The requests of NumSessions clients, interleaved at the awaits.
Spec == Init /\ [][Next]_vars

\* ------------------------------------------------------------- properties
\* What the specification calls a valid Create (or Replace) payload.
ValidCreatePayload(p) ==
    /\ ~p.extra
    /\ p.name.k = "val" /\ Len(p.name.v) <= 255
    /\ p.quantity.k = "val" /\ p.quantity.v >= 0
    /\ p.is_done.k \in {"absent", "val"}

\* What the specification calls a valid Update payload.
ValidUpdatePayload(p) ==
    /\ ~p.extra
    /\ (p.name.k = "val" => Len(p.name.v) <= 255)
    /\ (p.quantity.k = "val" => p.quantity.v >= 0)

IsDoneOf(p) == IF p.is_done.k = "absent" THEN FALSE ELSE p.is_done.v

\* The record e carries the fields of payload p.
Carries(e, p) ==
    /\ e.name = p.name.v
    /\ e.quantity = p.quantity.v
    /\ e.is_done = IsDoneOf(p)

\* The steps of the request of session s: its first one, any one, its last.
Arrives(s) == sess[s].pc = "idle" /\ sess'[s].pc # "idle"
Steps(s) == sess'[s].pc # sess[s].pc \/ sess'[s].k # sess[s].k
Completes(s) == sess[s].pc # "done" /\ sess'[s].pc = "done"

\* The storage refused the commit for a reason of its own.
StorageFailed(r) == r.error = "OperationalError"

\* Session t has answered 204 to the delete of id and the response is still
\* with it: the row of that id was deleted.
Deleted(t, id) ==
    /\ sess[t].pc = "done"
    /\ sess[t].op = "delete"
    /\ sess[t].status = 204
    /\ sess[t].essence_id = id

\* C1: for every valid Create payload the create operation stores one new
\* row and returns a record with name, quantity and is_done equal to the
\* input (is_done false when omitted), and a get-by-id with the returned id
\* issued right then returns the identical record.
C1_CreateThenGet ==
    [][\A s \in Sessions :
        LET r == sess'[s] IN
        /\ ( /\ Arrives(s) /\ r.op = "create"
             /\ ValidCreatePayload(r.essence_in) /\ ~StorageFailed(r) )
           => /\ Len(rows') = Len(rows) + 1
              /\ SubSeq(rows', 1, Len(rows)) = rows
              /\ rows'[Len(rows')].id \notin IdsOf(rows)
              /\ Carries(rows'[Len(rows')], r.essence_in)
        /\ ( /\ Completes(s) /\ r.op = "create"
             /\ ValidCreatePayload(r.essence_in) /\ ~StorageFailed(r) )
           => /\ r.status = 201
              /\ Len(r.body) = 1
              /\ Carries(r.body[1], r.essence_in)
              /\ get_essence(rows', Request("get", r.body[1].id, <<>>)).status = 200
              /\ get_essence(rows', Request("get", r.body[1].id, <<>>)).body = r.body
      ]_vars

\* C2: for every id that has no row or whose row has been deleted, get-by-id,
\* full-replace, partial-update and delete answer 404 and leave the rows
\* unchanged; a delete that succeeds leaves no row of that id, so that a
\* second delete issued right then answers 404.
C2_AbsentIdNotFound ==
    [][\A s \in Sessions :
        LET r == sess'[s] IN
        /\ ( /\ Arrives(s) /\ r.op \in {"get", "put", "patch", "delete"}
             /\ (r.op = "put" => ValidCreatePayload(r.essence_in))
             /\ (r.op = "patch" => ValidUpdatePayload(r.essence_in))
             /\ \/ r.essence_id \notin IdsOf(rows)
                \/ \E t \in Sessions : Deleted(t, r.essence_id) )
           => (r.status = 404 /\ rows' = rows)
        /\ (Completes(s) /\ r.op = "delete" /\ r.status = 204)
           => get_essence(rows', Request("get", r.essence_id, <<>>)).status = 404
      ]_vars

\* C3: no create or bulk-create assigns an id that an earlier row had: not
\* the id of a row that a delete has removed, also when that row held the
\* highest id of the table.
C3_IdNeverReused ==
    [][\A s \in Sessions :
        (Arrives(s) /\ sess'[s].op \in {"create", "bulk"})
        => \A t \in Sessions, id \in IdsOf(rows') \ IdsOf(rows) : ~Deleted(t, id)
      ]_vars

\* The request carries a field other than name, quantity and is_done.
HasUnknownField(r) ==
    \/ (r.op \in {"create", "put", "patch"} /\ r.essence_in.extra)
    \/ (r.op = "bulk" /\ \E i \in 1..Len(r.essence_in) : r.essence_in[i].extra)

\* C4: a create, bulk-create, full-replace or partial-update payload with a
\* field other than name, quantity and is_done is answered 422 and nothing
\* is stored or changed.
C4_UnknownFieldRejected ==
    [][\A s \in Sessions :
        (Arrives(s) /\ HasUnknownField(sess'[s]) /\ ~StorageFailed(sess'[s]))
        => (sess'[s].status = 422 /\ rows' = rows)
      ]_vars

\* The full-replace omits one of the three fields.
OmitsField(r) ==
    /\ r.op = "put"
    /\ \E f \in {"name", "quantity", "is_done"} : r.essence_in[f].k = "absent"

\* C5: a full-replace whose payload omits name, quantity or is_done changes
\* no row, and it is answered 422 (unless the id has no row, 404, or the
\* storage fails, 500).
C5_ReplaceRequiresAllFields ==
    [][\A s \in Sessions :
        /\ (Steps(s) /\ OmitsField(sess'[s])) => rows' = rows
        /\ ( /\ Completes(s) /\ OmitsField(sess'[s])
             /\ sess'[s].status \notin {404, 500} )
           => sess'[s].status = 422
      ]_vars

\* The field of the stored row is the one the payload supplied, or the old
\* one when the payload does not carry the field.
Applied(f, old, new) == IF f.k = "absent" THEN new = old ELSE f.k = "val" /\ new = f.v

\* C6: the commit of a partial-update of an existing id sets exactly the
\* fields present in the payload to the supplied values and leaves the
\* absent fields, the id and every other row unchanged (with an empty
\* payload: the whole row), and the update answers 200.
C6_PatchAppliesPresentFields ==
    [][\A s \in Sessions :
        LET r == sess[s] IN
        ( /\ r.op = "patch" /\ r.pc = "loaded" /\ Steps(s)
          /\ ValidUpdatePayload(r.essence_in)
          /\ r.essence_id \in IdsOf(rows)
          /\ ~StorageFailed(sess'[s]) )
        => /\ sess'[s].pc = "committed"
           /\ Len(rows') = Len(rows)
           /\ \A i \in 1..Len(rows) :
                IF rows[i].id # r.essence_id THEN rows'[i] = rows[i]
                ELSE /\ rows'[i].id = rows[i].id
                     /\ Applied(r.essence_in.name, rows[i].name, rows'[i].name)
                     /\ Applied(r.essence_in.quantity, rows[i].quantity,
                                rows'[i].quantity)
                     /\ Applied(r.essence_in.is_done, rows[i].is_done,
                                rows'[i].is_done)
      ]_vars

\* C7: bulk-create is all-or-nothing: either every payload is valid, all N
\* rows are appended by the one commit and the N returned records are the
\* inputs in input order, or a payload is invalid (422) or the commit failed
\* (500) and the table is as it was.
C7_BulkAllOrNothing ==
    [][\A s \in Sessions :
        LET r == sess'[s]
            n == Len(r.essence_in)
            valid == \A i \in 1..n : ValidCreatePayload(r.essence_in[i]) IN
        /\ (Arrives(s) /\ r.op = "bulk")
           => /\ (~valid <=> r.status = 422)
              /\ IF valid /\ ~StorageFailed(r)
                 THEN /\ Len(rows') = Len(rows) + n
                      /\ SubSeq(rows', 1, Len(rows)) = rows
                      /\ \A i \in 1..n :
                            /\ Carries(rows'[Len(rows) + i], r.essence_in[i])
                            /\ rows'[Len(rows) + i].id \notin IdsOf(rows)
                      /\ Cardinality(IdsOf(rows')) = Len(rows')
                 ELSE rows' = rows /\ r.pc = "done" /\ r.body = <<>>
        /\ (Completes(s) /\ r.op = "bulk" /\ valid /\ ~StorageFailed(r))
           => /\ r.status = 201
              /\ Len(r.body) = n
              /\ \A i \in 1..n : Carries(r.body[i], r.essence_in[i])
      ]_vars

\* C8: of two concurrent full-replace operations on the same id, each
\* loading the row before the other commits, the one that commits last
\* leaves the row equal in name, quantity and is_done to its payload.
C8_LastCommitWins ==
    [][\A s \in Sessions :
        ( /\ sess[s].op = "put" /\ sess[s].pc = "loaded" /\ sess[s].raced
          /\ sess'[s].pc = "committed" )
        => \A i \in 1..Len(rows') :
               rows'[i].id = sess[s].essence_id
                   => Carries(rows'[i], sess[s].essence_in)
      ]_vars

\* The name contains the substring sub, letter case ignored.
ContainsNoCase(name, sub) ==
    \E i \in 0..(Len(name) - Len(sub)) :
        \A j \in 1..Len(sub) : Lower(name[i + j]) = Lower(sub[j])

Matches(q, e) ==
    /\ (q.name.k = "val" => ContainsNoCase(e.name, q.name.v))
    /\ (q.is_done.k = "val" => e.is_done = q.is_done.v)
    /\ (q.min_quantity.k = "val" => q.min_quantity.v <= e.quantity)
    /\ (q.max_quantity.k = "val" => e.quantity <= q.max_quantity.v)

RECURSIVE Drop(_, _)
Drop(s, n) == IF n = 0 \/ s = <<>> THEN s ELSE Drop(Tail(s), n - 1)

RECURSIVE Take(_, _)
Take(s, n) == IF n = 0 \/ s = <<>> THEN <<>> ELSE <<Head(s)>> \o Take(Tail(s), n - 1)

\* C9: the list operation returns exactly the rows that satisfy every
\* supplied filter (name contains the substring, case ignored; is_done
\* equal; min_quantity <= quantity <= max_quantity), in creation order,
\* without the first offset matches and at most limit of the rest, and it
\* changes no row.
C9_ListReturnsMatchingPage ==
    [][\A s \in Sessions :
        LET r == sess'[s]
            q == r.essence_in IN
        (Arrives(s) /\ r.op = "list" /\ r.status = 200)
        => /\ rows' = rows
           /\ r.body =
                Take(Drop(SelectRows(rows, [i \in 1..Len(rows) |-> Matches(q, rows[i])]),
                          IF q.offset.k = "val" THEN q.offset.v ELSE 0),
                     IF q.limit.k = "val" THEN q.limit.v ELSE 10)
      ]_vars

\* C10: every stored row has an integer quantity >= 0, whatever requests
\* were served and however they interleave, and a request that fails
\* validation (422) is answered at once and changes no row.
C10_QuantityNeverNegative ==
    /\ [](\A i \in 1..Len(rows) : rows[i].quantity \in Nat)
    /\ [][\A s \in Sessions :
            (Completes(s) /\ sess'[s].status = 422) => (Arrives(s) /\ rows' = rows)
         ]_vars

\* Rows are stored; one request set quantity to null and was refused by the
\* storage, another sent a negative quantity and was refused by validation.
C10_Witness ==
    /\ rows # <<>>
    /\ \E s, t \in Sessions :
        /\ sess[s].op = "patch" /\ sess[s].pc = "done"
        /\ sess[s].essence_in.quantity.k = "null"
        /\ sess[s].error = "IntegrityError"
        /\ sess[t].op \in {"create", "bulk", "put", "patch"}
        /\ sess[t].status = 422

====
